---- MODULE Spec2Model ----
(***************************************************************************)
(* Model of tools/cdp_browser.py: CDPBrowserManager.                       *)
(*                                                                         *)
(* The manager's fields (browser, browser_context, debug_port and the      *)
(* launcher's browser_process) are the state.  launch_and_connect is       *)
(* modelled step by step along its awaits (probe, launch, connect, context *)
(* resolution, cookie federation); cleanup and the small public operations *)
(* are one action each.  The remote browser, the HTTP endpoints and the    *)
(* BrowserLauncher are the environment: every answer they can give is an   *)
(* input drawn with \E.  Strings that the code inspects character by       *)
(* character (URLs, cookie domains) are sequences of one-character         *)
(* strings.                                                                *)
(***************************************************************************)
EXTENDS Integers, Sequences, FiniteSets, TLC

\* ------------------------------------------------------------------ bounds
\* A behaviour is explored either in depth (one launch_and_connect call,
\* target listings of up to MaxTargets entries) or in breadth (up to
\* MaxAcquire calls, listings of up to ShallowTargets entries).
MaxAcquire == 2      \* launch_and_connect calls in one behaviour
MaxTargets == 3      \* entries of the /json target listing
ShallowTargets == 1  \* entries of the listing when calls are repeated
MaxExisting == 2     \* contexts a controller exposes after the handshake
MaxPages == 1        \* pages open in a reused context

\* Python's None: for a field holding an object, and for one holding a string
None == <<>>
Nil == "None"

\* ----------------------------------------------------------------- strings
\* str.startswith
StartsWith(s, p) == Len(s) >= Len(p) /\ SubSeq(s, 1, Len(p)) = p

\* `p in s` on strings: p occurs as a contiguous substring of s
IsSubstr(p, s) ==
    \E i \in 0..(Len(s) - Len(p)) : SubSeq(s, i + 1, i + Len(p)) = p

\* str.lstrip("."): every leading dot is removed
RECURSIVE Lstrip(_)
Lstrip(s) == IF s # <<>> /\ Head(s) = "." THEN Lstrip(Tail(s)) ELSE s

\* index of the first element of s for which it is in set D, or Len(s)+1
RECURSIVE FirstIn(_, _, _)
FirstIn(s, D, i) ==
    IF i > Len(s) THEN Len(s) + 1
    ELSE IF s[i] \in D THEN i ELSE FirstIn(s, D, i + 1)

SchemeChars ==
    {"a", "b", "c", "d", "e", "h", "m", "o", "p", "r", "s", "t", "x", "y", "z"}

\* urllib.parse.urlparse(url).netloc: an optional "scheme:" is split off,
\* and when the rest begins with "//" the authority runs up to the first
\* "/", "?" or "#".
Netloc(url) ==
    LET colon == FirstIn(url, {":"}, 1)
        hasScheme == /\ colon > 1
                     /\ colon <= Len(url)
                     /\ \A k \in 1..(colon - 1) : url[k] \in SchemeChars
        rest == IF hasScheme THEN SubSeq(url, colon + 1, Len(url)) ELSE url
    IN  IF StartsWith(rest, <<"/", "/">>)
        THEN LET body == SubSeq(rest, 3, Len(rest))
                 stop == FirstIn(body, {"/", "?", "#"}, 1)
             IN  SubSeq(body, 1, stop - 1)
        ELSE <<>>

HTTP == <<"h", "t", "t", "p">>

\* ------------------------------------------------- environment: the remote
\* Cookie domains and the authorities of the open tabs.
D_a == <<"a">>
D_dot_a == <<".", "a">>
D_ba == <<"b", ".", "a">>
D_b == <<"b">>
D_d == <<"d">>

Cookie(n, d, p) == [name |-> n, domain |-> d, path |-> p]

\* What each site leaves in the cookie jar of a context that navigates to
\* it.  Site a sets two cookies with one (name, domain) key; site b.a sets
\* a parent-domain cookie, a host cookie and a third-party cookie of b.
SiteCookies(domain) ==
    IF domain = D_a
    THEN <<Cookie("s", D_a, "/"), Cookie("s", D_a, "/x")>>
    ELSE IF domain = D_ba
    THEN <<Cookie("s", D_dot_a, "/"), Cookie("t", D_ba, "/"),
           Cookie("u", D_b, "/")>>
    ELSE <<>>

\* Entries the target listing (GET /json) can hold.
Targets ==
    { [type |-> "page", url |-> HTTP \o <<":", "/", "/", "a", "/", "x">>],
      [type |-> "page", url |-> HTTP \o <<":", "/", "/", "a", "/", "y">>],
      [type |-> "page",
       url |-> HTTP \o <<"s", ":", "/", "/", "b", ".", "a", "/", "z">>],
      [type |-> "service_worker",
       url |-> HTTP \o <<":", "/", "/", "b", "/">>],
      [type |-> "page",
       url |-> <<"c", "h", "r", "o", "m", "e", ":", "/", "/", "s">>],
      [type |-> "page", url |-> HTTP \o <<"x", ":", "/", "/", "d", "/">>],
      [type |-> "page", url |-> <<>>] }

\* Answers of GET /json/version: a transport exception, or a response with
\* a status, a body that parses as JSON or not, and a webSocketDebuggerUrl
\* that is absent (None), empty or set.
Response(e, st, js, ws) == [exc |-> e, status |-> st, json |-> js, ws |-> ws]
VersionResponses ==
    { Response("ConnectError", 0, FALSE, Nil),
      Response("TimeoutException", 0, FALSE, Nil),
      Response(Nil, 500, FALSE, Nil),
      Response(Nil, 200, FALSE, Nil),
      Response(Nil, 200, TRUE, Nil),
      Response(Nil, 200, TRUE, ""),
      Response(Nil, 200, TRUE, "ws") }

\* Cookie jars a context that already exists in the remote browser can bear.
ExistingJars == { <<>>, <<Cookie("sid", D_a, "/")>> }

\* BrowserLauncher.detect_browser_paths() results
DetectedPaths == { <<>>, <<"chrome">>, <<"chrome", "edge">> }

\* ------------------------------------------------------- pure code pieces
\* a probe satisfied with any 200 answer that parses
_test_cdp_connection_lenient(resp) ==
    IF resp.exc # Nil THEN FALSE
    ELSE IF resp.status = 200
         THEN IF ~resp.json THEN FALSE ELSE TRUE
         ELSE FALSE

\* _test_cdp_connection: True only for a 200 response whose JSON body has a
\* truthy webSocketDebuggerUrl; every exception is turned into False.
_test_cdp_connection(resp) ==
    IF resp.exc # Nil THEN FALSE
    ELSE IF resp.status = 200
         THEN IF ~resp.json THEN FALSE
              ELSE IF resp.ws # Nil /\ resp.ws # "" THEN TRUE ELSE FALSE
         ELSE FALSE

\* _get_browser_websocket_url without the test of line 190: whatever the
\* field holds is returned
_get_browser_websocket_url_unchecked(resp) ==
    IF resp.exc # Nil THEN [raised |-> resp.exc, value |-> Nil]
    ELSE IF resp.status = 200
         THEN IF ~resp.json
              THEN [raised |-> "JSONDecodeError", value |-> Nil]
              ELSE [raised |-> Nil, value |-> resp.ws]
         ELSE [raised |-> "RuntimeError: HTTP status", value |-> Nil]

\* _get_browser_websocket_url: the URL, or the exception it re-raises
_get_browser_websocket_url(resp) ==
    IF resp.exc # Nil THEN [raised |-> resp.exc, value |-> Nil]
    ELSE IF resp.status = 200
         THEN IF ~resp.json
              THEN [raised |-> "JSONDecodeError", value |-> Nil]
              ELSE IF resp.ws # Nil /\ resp.ws # ""
                   THEN [raised |-> Nil, value |-> resp.ws]
                   ELSE [raised |-> "RuntimeError: no webSocketDebuggerUrl",
                         value |-> Nil]
         ELSE [raised |-> "RuntimeError: HTTP status", value |-> Nil]

\* _get_browser_path without the os.path.isfile test of line 87
_get_browser_path_unchecked(custom, isfile, detected) ==
    IF custom # ""
    THEN [raised |-> Nil, value |-> custom, calls |-> <<>>]
    ELSE IF detected = <<>>
         THEN [raised |-> "RuntimeError: no browser found", value |-> Nil,
               calls |-> <<"launcher.detect_browser_paths">>]
         ELSE [raised |-> Nil, value |-> detected[1],
               calls |-> <<"launcher.detect_browser_paths",
                           "launcher.get_browser_info">>]

\* _get_browser_path: custom is config.CUSTOM_BROWSER_PATH ("" when unset),
\* isfile is os.path.isfile of it, detected is detect_browser_paths().
\* calls lists the launcher operations used.
_get_browser_path(custom, isfile, detected) ==
    IF custom # "" /\ isfile
    THEN [raised |-> Nil, value |-> custom, calls |-> <<>>]
    ELSE IF detected = <<>>
         THEN [raised |-> "RuntimeError: no browser found", value |-> Nil,
               calls |-> <<"launcher.detect_browser_paths">>]
         ELSE [raised |-> Nil, value |-> detected[1],
               calls |-> <<"launcher.detect_browser_paths",
                           "launcher.get_browser_info">>]

\* the test of line 304: page_url and page_url.startswith("http")
IsHttpUrl(page_url) == page_url # <<>> /\ StartsWith(page_url, HTTP)

\* a harvest loop that does not remember the domains it probed
AlreadyCheckedNever(domain, checked) == FALSE

\* the test of line 312: domain in domains_checked
AlreadyChecked(domain, checked) == domain \in checked

\* the filter of lines 325-328
DomainMatches(domain, c) ==
    IsSubstr(domain, c.domain) \/ IsSubstr(Lstrip(c.domain), domain)

FilterDomain(cookies, domain) ==
    SelectSeq(cookies, LAMBDA c : DomainMatches(domain, c))

\* lines 338-344: keep the first cookie of every (name, domain) key
RECURSIVE DedupFrom(_, _, _)
DedupFrom(cookies, seen, acc) ==
    IF cookies = <<>> THEN acc
    ELSE LET c == Head(cookies)
             key == <<c.name, c.domain>>
         IN  IF key \notin seen
             THEN DedupFrom(Tail(cookies), seen \cup {key}, Append(acc, c))
             ELSE DedupFrom(Tail(cookies), seen, acc)

\* de-duplication on the name alone
RECURSIVE DedupFromByName(_, _, _)
DedupFromByName(cookies, seen, acc) ==
    IF cookies = <<>> THEN acc
    ELSE LET c == Head(cookies)
         IN  IF c.name \notin seen
             THEN DedupFromByName(Tail(cookies), seen \cup {c.name},
                                  Append(acc, c))
             ELSE DedupFromByName(Tail(cookies), seen, acc)

DedupByName(cookies) == DedupFromByName(cookies, {}, <<>>)

Dedup(cookies) == DedupFrom(cookies, {}, <<>>)

\* lines 352-357: cookies_by_domain, a dict in insertion order, as a
\* sequence of [domain, cookies] groups
RECURSIVE GroupFrom(_, _)
GroupFrom(cookies, groups) ==
    IF cookies = <<>> THEN groups
    ELSE LET c == Head(cookies)
             d == Lstrip(c.domain)
             at == { i \in 1..Len(groups) : groups[i].domain = d }
         IN  IF at = {}
             THEN GroupFrom(Tail(cookies),
                            Append(groups, [domain |-> d, cookies |-> <<c>>]))
             ELSE GroupFrom(Tail(cookies),
                            [groups EXCEPT ![CHOOSE i \in at : TRUE].cookies =
                                               Append(@, c)])

GroupByDomain(cookies) == GroupFrom(cookies, <<>>)

\* BrowserContext.add_cookies / a navigation's Set-Cookie: a cookie already
\* in the jar (same name, domain and path) is not stored twice
RECURSIVE JarAdd(_, _)
JarAdd(jar, cookies) ==
    IF cookies = <<>> THEN jar
    ELSE JarAdd(IF \E i \in 1..Len(jar) : jar[i] = Head(cookies)
                THEN jar ELSE Append(jar, Head(cookies)),
                Tail(cookies))

\* ------------------------------------------------------------------- state
VARIABLES
    browser,            \* self.browser: None or a controller handle
    browser_context,    \* self.browser_context: None or a context
    debug_port,         \* self.debug_port
    browser_process,    \* self.launcher.browser_process
    AUTO_CLOSE_BROWSER, \* config.AUTO_CLOSE_BROWSER
    pc,                 \* where launch_and_connect stands
    op,                 \* the public operation running or last run
    returned,           \* what that operation returned
    raised,             \* the exception it let escape, or None
    caught,             \* the exception caught at line 77, or None
    log,                \* calls on collaborators and warnings, this operation
    nAcquire,           \* launch_and_connect calls so far
    initial_probe,      \* result of the probe of line 49 in this call
    browser_path,       \* the path handed to launch_browser in this call
    openBrowsers,       \* handles obtained, close() not yet called on them
    openContexts,       \* contexts adopted or created, close() not yet called
    contexts,           \* self.browser.contexts
    jar,                \* cookie jar of the context being resolved / active
    ctx,                \* local browser_context of _create_browser_context
    fed,                \* locals of the federation block (lines 289-386)
    obs,                \* what this call did, recorded for the properties
    limit               \* the bounds this behaviour is explored under

vars == <<browser, browser_context, debug_port, browser_process,
          AUTO_CLOSE_BROWSER, pc, op, returned, raised, caught, log,
          nAcquire, initial_probe, browser_path, openBrowsers, openContexts,
          contexts, jar, ctx, fed, obs, limit>>

\* left alone by every step of launch_and_connect
fixedVars == <<debug_port, AUTO_CLOSE_BROWSER, op, nAcquire, initial_probe,
               limit>>
\* left alone by every step of the federation block
outsideFed == <<browser, browser_process, browser_path, openBrowsers,
                openContexts, contexts, ctx>>
\* left alone by a step that neither returns nor raises
running == <<browser_context, returned, raised, caught, pc>>

Idle == {"INIT", "READY", "FAILED"}

FedInit ==
    [fpc |-> "none", idx |-> 0, url |-> <<>>, domain |-> <<>>,
     all_cookies |-> <<>>, domains_checked |-> {}, unique_cookies |-> <<>>,
     cookies_by_domain |-> <<>>, gi |-> 0, tempOpen |-> 0]

ObsInit ==
    [exposed |-> 0, jar0 |-> <<>>, calls |-> {},
     eligible |-> {}, httpDomains |-> {}, probes |-> 0, attempted |-> {},
     openFailed |-> {}, harvested |-> {}, deduped |-> FALSE,
     groupsTried |-> {}, groupsInstalled |-> {}, reported |-> -1,
     ws_url |-> Nil, config |-> <<>>, response |-> <<>>]

Init ==
    /\ browser = None
    /\ browser_context = None
    /\ debug_port = Nil
    /\ browser_process = Nil
    /\ AUTO_CLOSE_BROWSER \in BOOLEAN
    /\ pc = "INIT"
    /\ op = Nil
    /\ returned = None
    /\ raised = Nil
    /\ caught = Nil
    /\ log = <<>>
    /\ nAcquire = 0
    /\ initial_probe = Nil
    /\ browser_path = Nil
    /\ openBrowsers = {}
    /\ openContexts = {}
    /\ contexts = <<>>
    /\ jar = <<>>
    /\ ctx = None
    /\ fed = FedInit
    /\ obs = ObsInit
    /\ limit \in { [acquire |-> 1, targets |-> MaxTargets],
                   [acquire |-> MaxAcquire, targets |-> ShallowTargets] }

\* ----------------------------------------------------------------- cleanup
\* Each step of cleanup gives the calls it makes ("!" marks a call that
\* raised), what it called close() on, the warning it logs and the
\* exception that escapes the step.

\* CloseContextStep without the except of line 437: a failing close escapes
CloseContextStepEscapes(bc, fails) ==
    IF bc # None
    THEN [calls |-> <<IF fails THEN "context.close!" ELSE "context.close">>,
          closed |-> {bc},
          warnings |-> <<>>,
          field |-> None,
          escapes |-> IF fails THEN "CloseError" ELSE Nil]
    ELSE [calls |-> <<>>, closed |-> {}, warnings |-> <<>>, field |-> bc,
          escapes |-> Nil]

\* lines 433-442: close the context; a failure is logged, not raised
CloseContextStep(bc, fails) ==
    IF bc # None
    THEN [calls |-> <<IF fails THEN "context.close!" ELSE "context.close">>,
          closed |-> {bc},
          warnings |-> IF fails THEN <<"WARNING: context close failed">>
                       ELSE <<>>,
          field |-> None,                  \* finally, line 442
          escapes |-> Nil]                 \* except Exception, line 437
    ELSE [calls |-> <<>>, closed |-> {}, warnings |-> <<>>, field |-> bc,
          escapes |-> Nil]

\* CloseBrowserStep without the finally of line 453: a handle whose close
\* failed stays in the field
CloseBrowserStepNoFinally(b, fails) ==
    IF b # None
    THEN [calls |-> <<IF fails THEN "browser.close!" ELSE "browser.close">>,
          closed |-> {b},
          warnings |-> IF fails THEN <<"WARNING: browser close failed">>
                       ELSE <<>>,
          field |-> IF fails THEN b ELSE None,
          escapes |-> Nil]
    ELSE [calls |-> <<>>, closed |-> {}, warnings |-> <<>>, field |-> b,
          escapes |-> Nil]

\* lines 445-454: close the controller handle; a failure is logged
CloseBrowserStep(b, fails) ==
    IF b # None
    THEN [calls |-> <<IF fails THEN "browser.close!" ELSE "browser.close">>,
          closed |-> {b},
          warnings |-> IF fails THEN <<"WARNING: browser close failed">>
                       ELSE <<>>,
          field |-> None,                  \* finally, line 454
          escapes |-> Nil]                 \* except Exception, line 449
    ELSE [calls |-> <<>>, closed |-> {}, warnings |-> <<>>, field |-> b,
          escapes |-> Nil]

\* TerminateStep without the test of line 457
TerminateStepUngated(auto_close, fails) ==
    [calls |-> <<IF fails THEN "launcher.cleanup!" ELSE "launcher.cleanup">>,
     escapes |-> IF fails THEN "TerminateError" ELSE Nil]

\* lines 457-462: terminate the browser process if configured to
TerminateStep(auto_close, fails) ==
    IF auto_close
    THEN [calls |-> <<IF fails THEN "launcher.cleanup!"
                      ELSE "launcher.cleanup">>,
          escapes |-> IF fails THEN "TerminateError" ELSE Nil]
    ELSE [calls |-> <<>>, escapes |-> Nil]

\* an outer handler that re-raises
OuterExceptReraise(e) == e

\* line 464: what leaves cleanup when exception e reaches its outer handler
OuterExcept(e) == Nil

\* a cleanup that forgets the handle only when closing it succeeded
cleanupKeepsFailed(bc, b, auto_close, ctxFails, brFails, termFails) ==
    LET s1 == CloseContextStep(bc, ctxFails)
        s2 == CloseBrowserStep(b, brFails)
        s3 == TerminateStep(auto_close, termFails)
    IN  [browser_context |-> s1.field,
         browser |-> IF b # None /\ brFails THEN b ELSE s2.field,
         calls |-> s1.calls \o s2.calls \o s3.calls,
         closedContexts |-> s1.closed,
         closedBrowsers |-> s2.closed,
         warnings |-> s1.warnings \o s2.warnings
                      \o (IF s3.escapes # Nil
                          THEN <<"ERROR: cleanup failed">> ELSE <<>>),
         raised |-> Nil]

\* cleanup (lines 427-465) on a manager holding context bc and handle b.
\* A step runs only if no exception escaped the steps before it.
cleanup(bc, b, auto_close, ctxFails, brFails, termFails) ==
    LET s1 == CloseContextStep(bc, ctxFails)
        s2 == IF s1.escapes = Nil THEN CloseBrowserStep(b, brFails)
              ELSE [calls |-> <<>>, closed |-> {}, warnings |-> <<>>,
                    field |-> b, escapes |-> s1.escapes]
        s3 == IF s2.escapes = Nil THEN TerminateStep(auto_close, termFails)
              ELSE [calls |-> <<>>, escapes |-> s2.escapes]
    IN  [browser_context |-> s1.field,
         browser |-> s2.field,
         calls |-> s1.calls \o s2.calls \o s3.calls,
         closedContexts |-> s1.closed,
         closedBrowsers |-> s2.closed,
         warnings |-> s1.warnings \o s2.warnings
                      \o (IF s3.escapes # Nil
                          THEN <<"ERROR: cleanup failed">> ELSE <<>>),
         raised |-> IF s3.escapes # Nil THEN OuterExcept(s3.escapes)
                    ELSE Nil]

\* The effect of a cleanup result c on the fields and on the remote side:
\* closing a handle closes the contexts obtained through it.
Cleaned(c, lg, openB, openC) ==
    /\ browser_context' = c.browser_context
    /\ browser' = c.browser
    /\ openBrowsers' = openB \ c.closedBrowsers
    /\ openContexts' = { x \in openC \ c.closedContexts :
                           <<"browser", x[2]>> \notin c.closedBrowsers }
    /\ contexts' = <<>>
    /\ jar' = <<>>
    /\ log' = lg \o <<"cleanup">> \o c.calls \o c.warnings

\* The except block of launch_and_connect (lines 77-80) after a step raised
\* e: cleanup runs on the fields as they stand (b is self.browser, openB
\* the handles open at that point, lg the log so far), then the exception
\* is re-raised.
Fail(e, lg, b, openB) ==
    \E ctxFails, brFails, termFails \in BOOLEAN :
      LET c == cleanup(browser_context, b, AUTO_CLOSE_BROWSER,
                       ctxFails, brFails, termFails)
      IN  /\ Cleaned(c, lg, openB, openContexts)
          /\ caught' = e
          /\ raised' = IF c.raised # Nil THEN c.raised ELSE e   \* line 80
          /\ returned' = None
          /\ pc' = "FAILED"

\* ------------------------------------------------------ launch_and_connect
\* Entry of launch_and_connect: line 48.
launch_and_connect ==
    /\ pc \in Idle
    /\ nAcquire < limit.acquire
    /\ pc' = "PROBING"
    /\ op' = "launch_and_connect"
    /\ nAcquire' = nAcquire + 1
    /\ debug_port' = "CDP_DEBUG_PORT"
    /\ log' = <<>>
    /\ returned' = None
    /\ raised' = Nil
    /\ caught' = Nil
    /\ initial_probe' = Nil
    /\ browser_path' = Nil
    /\ ctx' = None
    /\ fed' = FedInit
    /\ obs' = ObsInit
    /\ contexts' = <<>>      \* of the old handle: not read again
    /\ jar' = <<>>           \* no context is being resolved yet
    /\ UNCHANGED <<browser, browser_context, browser_process,
                   AUTO_CLOSE_BROWSER, openBrowsers, openContexts, limit>>

\* a branch that launches whatever the probe said
AfterProbeAlwaysLaunch(ready) == "LAUNCHING"

\* the branch of line 49
AfterProbe(ready) == IF ready THEN "ATTACHING" ELSE "LAUNCHING"

\* Line 49: the probe of the configured port.
Probing ==
    /\ pc = "PROBING"
    /\ \E resp \in VersionResponses :
         /\ initial_probe' = IF _test_cdp_connection(resp) THEN "True"
                             ELSE "False"
         /\ pc' = AfterProbe(_test_cdp_connection(resp))
         /\ obs' = [obs EXCEPT !.response = resp]
    /\ log' = Append(log, "GET /json/version")
    /\ UNCHANGED <<browser, browser_context, debug_port, browser_process,
                   AUTO_CLOSE_BROWSER, op, returned, raised, caught, nAcquire,
                   browser_path, openBrowsers, openContexts, contexts, jar,
                   ctx, fed, limit>>

\* Lines 50-54: a browser is listening, nothing is launched.
Attaching ==
    /\ pc = "ATTACHING"
    /\ pc' = "CONNECTING"
    /\ obs' = [obs EXCEPT !.response = <<>>]   \* the probe's local is gone
    /\ UNCHANGED <<browser, browser_context, browser_process, returned,
                   raised, caught, log, browser_path, openBrowsers,
                   openContexts, contexts, jar, ctx, fed, fixedVars>>

\* Lines 56-64: _get_browser_path and _launch_browser.
Launching ==
    /\ pc = "LAUNCHING"
    /\ \E custom \in {"", "custom"}, isfile \in BOOLEAN,
          detected \in DetectedPaths, launchOk \in BOOLEAN,
          ready \in BOOLEAN :
         LET p == _get_browser_path(custom, isfile, detected)
             lg1 == log \o p.calls
             lg2 == Append(lg1, "launcher.launch_browser")
             \* what path resolution looked at: isfile is evaluated only
             \* for a path that is set, detection runs only if p.calls
             seen == [custom |-> custom,
                      isfile |-> IF custom = "" THEN "not evaluated"
                                 ELSE IF isfile THEN "True" ELSE "False",
                      detected |-> IF p.calls = <<>> THEN <<>> ELSE detected]
         IN  /\ obs' = [obs EXCEPT !.config = seen, !.response = <<>>]
             /\ IF p.raised # Nil
                THEN /\ Fail(p.raised, lg1, browser, openBrowsers)
                     /\ UNCHANGED <<browser_process, browser_path>>
                ELSE IF ~launchOk
                THEN /\ Fail("LaunchError",
                             Append(lg1, "launcher.launch_browser!"),
                             browser, openBrowsers)
                     /\ browser_path' = p.value
                     /\ UNCHANGED browser_process
                ELSE IF ~ready
                THEN /\ Fail("RuntimeError: browser not ready in time",
                             Append(lg2,
                                    "launcher.wait_for_browser_ready: False"),
                             browser, openBrowsers)
                     /\ browser_path' = p.value
                     /\ browser_process' = "process"
                ELSE /\ pc' = "CONNECTING"
                     /\ browser_path' = p.value
                     /\ browser_process' = "process"
                     /\ log' = lg2 \o
                               <<"launcher.wait_for_browser_ready: True",
                                 "GET /json/version">>
                     /\ UNCHANGED <<browser, browser_context, openBrowsers,
                                    openContexts, contexts, jar, returned,
                                    raised, caught>>
    /\ UNCHANGED <<ctx, fed, fixedVars>>

\* line 214 left out: the handle is taken as connected
AfterHandshakeUnchecked(is_connected) == "RESOLVING_CONTEXT"

\* the test of line 214 on the handle the handshake returned
AfterHandshake(is_connected) ==
    IF is_connected THEN "RESOLVING_CONTEXT" ELSE "FAILED"

\* _connect_via_cdp (lines 202-224): one metadata request, one handshake.
\* The handle created by this call is named by the call's number; it
\* exposes k contexts, the first of them bearing cookie jar j.
Connecting ==
    /\ pc = "CONNECTING"
    /\ \E resp \in VersionResponses,
          hs \in {"raises", "connected", "not_connected"},
          k \in 0..MaxExisting, j \in ExistingJars :
         LET w == _get_browser_websocket_url(resp)
             lg1 == Append(log, "GET /json/version")
             h == <<"browser", nAcquire>>
             lg2 == lg1 \o <<"connect_over_cdp",
                             IF hs = "connected" THEN "is_connected: True"
                             ELSE "is_connected: False">>
         IN  IF w.raised # Nil
             THEN /\ Fail(w.raised, lg1, browser, openBrowsers)
                  /\ UNCHANGED obs
             ELSE IF hs = "raises"
             THEN /\ Fail("HandshakeError",
                          Append(lg1, "connect_over_cdp!"), browser,
                          openBrowsers)
                  /\ obs' = [obs EXCEPT !.ws_url = w.value]
             ELSE IF AfterHandshake(hs = "connected") = "FAILED"
             THEN /\ Fail("RuntimeError: CDP connection failed", lg2, h,
                          openBrowsers \cup {h})
                  /\ obs' = [obs EXCEPT !.ws_url = w.value]
             ELSE /\ browser' = h
                  /\ openBrowsers' = openBrowsers \cup {h}
                  /\ contexts' = [i \in 1..k |-> <<"context", nAcquire, i>>]
                  /\ jar' = IF k > 0 THEN j ELSE <<>>
                  /\ obs' = [obs EXCEPT !.ws_url = w.value,
                                        !.exposed = k,
                                        !.jar0 = IF k > 0 THEN j ELSE <<>>]
                  /\ log' = lg2
                  /\ pc' = AfterHandshake(hs = "connected")
                  /\ UNCHANGED <<browser_context, openContexts, returned,
                                 raised, caught>>
    /\ UNCHANGED <<browser_process, browser_path, ctx, fed, fixedVars>>

\* a return without the assignment of line 74
ReadyNotStored(c) ==
    /\ UNCHANGED browser_context
    /\ returned' = c
    /\ raised' = Nil
    /\ caught' = Nil
    /\ pc' = "READY"

\* Lines 74-75: the context becomes the active one and is returned.
Ready(c) ==
    /\ browser_context' = c
    /\ returned' = c
    /\ raised' = Nil
    /\ caught' = Nil
    /\ pc' = "READY"

\* the context browser.new_context() returns on handle b
NewContext(b) == <<"context", b[2], 0>>

\* a resolution that always creates a context
ReuseExistingNever(cs) == FALSE

\* the test of line 239: an existing context is reused
ReuseExisting(cs) == cs # <<>>

\* _create_browser_context, lines 233-281: reuse the first context the
\* controller exposes, or create one and go on to federate cookies.
ResolvingContext ==
    /\ pc = "RESOLVING_CONTEXT"
    /\ IF browser = None
       THEN /\ Fail("RuntimeError: browser not connected", log, browser,
                    openBrowsers)
            /\ UNCHANGED <<ctx, fed>>
       ELSE IF ReuseExisting(contexts)
       THEN \E pages \in 0..MaxPages, cookiesFail \in BOOLEAN :
              /\ ctx' = contexts[1]
              /\ Ready(contexts[1])
              /\ log' = log \o
                     (IF pages = 0 THEN <<>>
                      ELSE IF cookiesFail
                      THEN <<"context.cookies!",
                             "WARNING: reading cookies failed">>
                      ELSE <<"context.cookies">>)
              /\ openContexts' = openContexts \cup {contexts[1]}
              /\ UNCHANGED <<browser, openBrowsers, contexts, jar, fed>>
       ELSE \E created \in BOOLEAN :
              IF ~created
              THEN /\ Fail("ContextCreationError",
                           Append(log, "browser.new_context!"), browser,
                           openBrowsers)
                   /\ UNCHANGED <<ctx, fed>>
              ELSE /\ ctx' = NewContext(browser)
                   /\ contexts' = Append(contexts, NewContext(browser))
                   /\ openContexts' = openContexts \cup {NewContext(browser)}
                   /\ jar' = <<>>
                   /\ log' = log \o <<"browser.new_context",
                                      "WARNING: new context, no login state">>
                   /\ pc' = "FEDERATING"
                   /\ fed' = [fed EXCEPT !.fpc = "list"]
                   /\ UNCHANGED <<browser, browser_context, openBrowsers,
                                  returned, raised, caught>>
    /\ UNCHANGED <<browser_process, browser_path, obs, fixedVars>>

\* ------------------------------------------------------- cookie federation
\* the harvest loop without the except of line 334
HandlerNoTargetExcept(site) ==
    CASE site \in {"goto", "cookies"} -> "page"
      [] site \in {"anchor", "add_cookies"} -> "install"
      [] OTHER -> "outer"

\* Which except clause catches an exception raised at a place of the
\* federation block: "page" is line 330 (then the finally of line 332
\* closes the page), "target" is line 334 (the loop goes on with the next
\* target), "install" is lines 364 and 369 (the loop goes on with the next
\* domain), "outer" is line 382 (federation ends with a warning).
Handler(site) ==
    CASE site \in {"goto", "cookies"} -> "page"
      [] site \in {"urlparse", "new_page", "close"} -> "target"
      [] site \in {"anchor", "add_cookies"} -> "install"
      [] OTHER -> "outer"

\* an outer handler of the federation block that lets the exception go
FederationExceptReraise(e) == e

\* line 382: what leaves the federation block when exception e reaches its
\* outer handler (except Exception: a warning, nothing re-raised)
FederationExcept(e) == Nil

\* Lines 382-388: federation ends with a warning, the context is handed
\* back all the same.  (An exception leaving the block would leave
\* _create_browser_context and launch_and_connect.)
FederationWarning(f, o) ==
    /\ log' = Append(log, "WARNING: cookie federation failed")
    /\ fed' = [f EXCEPT !.fpc = "aborted"]
    /\ obs' = o
    /\ IF FederationExcept("FederationError") = Nil
       THEN Ready(ctx)
       ELSE /\ pc' = "FAILED"
            /\ caught' = FederationExcept("FederationError")
            /\ raised' = FederationExcept("FederationError")
            /\ returned' = None
            /\ UNCHANGED browser_context

\* Lines 291-298: the target listing.
FedList ==
    /\ pc = "FEDERATING" /\ fed.fpc = "list"
    /\ \E r \in {"raises", "status", "badjson", "ok"} :
         LET o == [obs EXCEPT !.calls = @ \cup {"GET /json"}]
         IN  CASE r \in {"raises", "badjson"} -> FederationWarning(fed, o)
               [] r = "status" ->
                    /\ fed' = [fed EXCEPT !.fpc = "skipped"]
                    /\ obs' = o
                    /\ Ready(ctx)
                    /\ UNCHANGED log
               [] r = "ok" ->
                    /\ fed' = [fed EXCEPT !.fpc = "harvest"]
                    /\ obs' = o
                    /\ UNCHANGED <<running, log>>
    /\ UNCHANGED <<jar, outsideFed, fixedVars>>

\* the scheme of a URL: the characters before its first colon
UrlScheme(url) == SubSeq(url, 1, FirstIn(url, {":"}, 1) - 1)

\* Lines 301-318: the next target of the listing, up to the opening of its
\* temporary page.  The listing is read entry by entry: t is its next entry.
HarvestNext ==
    /\ pc = "FEDERATING" /\ fed.fpc = "harvest"
    /\ fed.idx < limit.targets
    /\ \E t \in Targets, pageOk \in BOOLEAN :
         LET passes == t.type = "page" /\ IsHttpUrl(t.url)
             domain == Netloc(t.url)
             f1 == [fed EXCEPT !.idx = @ + 1]
             o1 == [obs EXCEPT
                      !.eligible =
                          IF t.type = "page"
                             /\ UrlScheme(t.url) \in {HTTP, Append(HTTP, "s")}
                          THEN @ \cup {Netloc(t.url)} ELSE @,
                      !.httpDomains =
                          IF t.type = "page" /\ StartsWith(t.url, HTTP)
                          THEN @ \cup {Netloc(t.url)} ELSE @]
         IN  IF ~passes \/ AlreadyChecked(domain, fed.domains_checked)
             THEN /\ fed' = f1
                  /\ obs' = o1
                  /\ UNCHANGED <<running, log>>
             ELSE LET f2 == [f1 EXCEPT !.domains_checked = @ \cup {domain}]
                      o2 == [o1 EXCEPT !.attempted = @ \cup {domain},
                                       !.calls = @ \cup {"new_page"}]
                      o3 == [o2 EXCEPT !.openFailed = @ \cup {domain}]
                  IN  IF pageOk
                      THEN /\ fed' = [f2 EXCEPT !.fpc = "probe",
                                                !.url = t.url,
                                                !.domain = domain,
                                                !.tempOpen = @ + 1]
                           /\ obs' = o2
                           /\ UNCHANGED <<running, log>>
                      ELSE IF Handler("new_page") = "target"
                      THEN /\ fed' = f2
                           /\ obs' = o3
                           /\ UNCHANGED <<running, log>>
                      ELSE FederationWarning(f2, o3)
    /\ UNCHANGED <<jar, outsideFed, fixedVars>>

\* a page closed only at the end of the try body
PageClosedOnSuccess(ok) == ok

\* the finally of lines 332-333: close() is called on the temporary page
\* whether or not the body of the try (navigation, cookie read) succeeded
PageClosed(ok) == TRUE

\* Lines 319-333: navigate the temporary page, read the jar, keep the
\* cookies of the domain, close the page.  A navigation that succeeds
\* leaves the site's cookies in the jar.  tempOpen counts the temporary
\* pages on which close() has not been called.
HarvestProbe ==
    /\ pc = "FEDERATING" /\ fed.fpc = "probe"
    /\ \E gotoOk, cookiesOk, closeOk \in BOOLEAN :
         LET d == fed.domain
             jar1 == IF gotoOk THEN JarAdd(jar, SiteCookies(d)) ELSE jar
             read == gotoOk /\ cookiesOk
             kept == IF read THEN FilterDomain(jar1, d) ELSE <<>>
             closed == PageClosed(read)
             escapes == \/ ~gotoOk /\ Handler("goto") # "page"
                        \/ gotoOk /\ ~cookiesOk /\ Handler("cookies") # "page"
                        \/ closed /\ ~closeOk /\ Handler("close") # "target"
             f == [fed EXCEPT !.all_cookies = @ \o kept,
                              !.fpc = "harvest",
                              !.url = <<>>,
                              !.domain = <<>>,
                              !.tempOpen = IF closed THEN @ - 1 ELSE @]
             o == [obs EXCEPT
                      !.probes = @ + 1,
                      !.calls = @ \cup {"goto"}
                                  \cup (IF closed THEN {"close"} ELSE {})
                                  \cup (IF gotoOk THEN {"cookies"} ELSE {}),
                      !.harvested =
                          IF read THEN @ \cup {[domain |-> d, kept |-> kept]}
                          ELSE @]
         IN  /\ jar' = jar1
             /\ IF escapes
                THEN FederationWarning(f, o)
                ELSE /\ fed' = f
                     /\ obs' = o
                     /\ UNCHANGED <<running, log>>
    /\ UNCHANGED <<outsideFed, fixedVars>>

\* Lines 337-349 and 377-381: the listing is exhausted; the harvest is
\* de-duplicated and, when something is left, the page for the
\* installation is opened.
HarvestEnd ==
    /\ pc = "FEDERATING" /\ fed.fpc = "harvest"
    /\ LET unique == Dedup(fed.all_cookies)
           f == [fed EXCEPT !.unique_cookies = unique]
           o == [obs EXCEPT !.deduped = TRUE]
       IN  IF unique # <<>>
           THEN \E pageOk \in BOOLEAN :
                  LET o2 == [o EXCEPT !.calls = @ \cup {"new_page"}]
                  IN  IF pageOk
                      THEN /\ fed' = [f EXCEPT
                                        !.cookies_by_domain =
                                            GroupByDomain(unique),
                                        !.gi = 1,
                                        !.fpc = "install",
                                        !.tempOpen = @ + 1]
                           /\ obs' = o2
                           /\ UNCHANGED <<running, log>>
                      ELSE FederationWarning(f, o2)
           ELSE /\ log' = Append(log, "WARNING: no cookies found")
                /\ fed' = [f EXCEPT !.fpc = "done"]
                /\ obs' = o
                /\ Ready(ctx)
    /\ UNCHANGED <<jar, outsideFed, fixedVars>>

\* Lines 360-370: one domain of cookies_by_domain: navigate to
\* https://domain and add its cookies; if either raises, try again over
\* http://domain; if that raises too, go on.
InstallGroup ==
    /\ pc = "FEDERATING" /\ fed.fpc = "install"
    /\ fed.gi <= Len(fed.cookies_by_domain)
    /\ \E httpsOk, add1Ok, httpOk, add2Ok \in BOOLEAN :
         LET g == fed.cookies_by_domain[fed.gi]
             first == httpsOk /\ add1Ok
             second == ~first /\ httpOk /\ add2Ok
             installed == first \/ second
             f == [fed EXCEPT !.gi = @ + 1]
             o == [obs EXCEPT
                      !.calls = @ \cup {"goto"}
                                  \cup (IF httpsOk \/ httpOk
                                        THEN {"add_cookies"} ELSE {}),
                      !.groupsTried = @ \cup {g.domain},
                      !.groupsInstalled =
                          IF installed THEN @ \cup {g.domain} ELSE @]
         IN  /\ jar' = IF installed THEN JarAdd(jar, g.cookies) ELSE jar
             /\ IF installed \/ Handler("add_cookies") = "install"
                THEN /\ fed' = f
                     /\ obs' = o
                     /\ UNCHANGED <<running, log>>
                ELSE FederationWarning([f EXCEPT !.tempOpen = @ - 1], o)
    /\ UNCHANGED <<outsideFed, fixedVars>>

\* Lines 372-376: the count is logged and the page closed.
InstallEnd ==
    /\ pc = "FEDERATING" /\ fed.fpc = "install"
    /\ fed.gi > Len(fed.cookies_by_domain)
    /\ \E closeOk \in BOOLEAN :
         LET lg == Append(log, "INFO: cookies copied to the new context")
         IN  /\ fed' = [fed EXCEPT !.tempOpen = @ - 1, !.fpc = "done"]
             /\ obs' = [obs EXCEPT !.reported = Len(fed.unique_cookies),
                                   !.calls = @ \cup {"close"}]
             /\ log' = IF closeOk THEN lg
                       ELSE Append(lg, "WARNING: cookie federation failed")
             /\ Ready(ctx)
    /\ UNCHANGED <<jar, outsideFed, fixedVars>>

\* ------------------------------------------------------- public operations
\* what a public operation other than launch_and_connect leaves of the
\* last launch_and_connect call: its locals are gone
CallOver ==
    /\ pc' = "INIT"
    /\ caught' = Nil
    /\ initial_probe' = Nil
    /\ browser_path' = Nil
    /\ ctx' = None
    /\ fed' = FedInit
    /\ obs' = ObsInit

\* cleanup() called by the user of the manager.
Cleanup ==
    /\ pc \in Idle
    /\ \E ctxFails, brFails, termFails \in BOOLEAN :
         LET c == cleanup(browser_context, browser, AUTO_CLOSE_BROWSER,
                          ctxFails, brFails, termFails)
         IN  /\ Cleaned(c, <<>>, openBrowsers, openContexts)
             /\ raised' = c.raised
    /\ returned' = None
    /\ op' = "cleanup"
    /\ CallOver
    /\ UNCHANGED <<debug_port, browser_process, AUTO_CLOSE_BROWSER, nAcquire,
                   limit>>

\* left alone by the operations that only use the active context
held == <<browser, browser_context, debug_port, browser_process,
          AUTO_CLOSE_BROWSER, openBrowsers, openContexts, contexts, nAcquire,
          limit>>

\* add_stealth_script (lines 390-401); exists is os.path.exists(script_path)
add_stealth_script ==
    /\ pc \in Idle
    /\ \E exists \in BOOLEAN, fails \in BOOLEAN :
         log' = IF browser_context # None /\ exists
                THEN IF fails
                     THEN <<"context.add_init_script!",
                            "WARNING: adding the script failed">>
                     ELSE <<"context.add_init_script">>
                ELSE <<>>
    /\ op' = "add_stealth_script"
    /\ returned' = None
    /\ raised' = Nil
    /\ CallOver
    /\ UNCHANGED <<held, jar>>

\* lists a caller hands to add_cookies
CookieInputs == { <<Cookie("k", D_a, "/")>> }

\* add_cookies (lines 403-412)
add_cookies ==
    /\ pc \in Idle
    /\ \E cookies \in CookieInputs, fails \in BOOLEAN :
         IF browser_context # None
         THEN IF fails
              THEN /\ log' = <<"context.add_cookies!",
                               "WARNING: adding cookies failed">>
                   /\ UNCHANGED jar
              ELSE /\ log' = <<"context.add_cookies">>
                   /\ jar' = JarAdd(jar, cookies)
         ELSE /\ log' = <<>>
              /\ UNCHANGED jar
    /\ op' = "add_cookies"
    /\ returned' = None
    /\ raised' = Nil
    /\ CallOver
    /\ UNCHANGED held

\* get_cookies (lines 414-425)
get_cookies ==
    /\ pc \in Idle
    /\ \E fails \in BOOLEAN :
         IF browser_context # None
         THEN IF fails
              THEN /\ log' = <<"context.cookies!",
                               "WARNING: reading cookies failed">>
                   /\ returned' = <<"list", <<>>>>
              ELSE /\ log' = <<"context.cookies">>
                   /\ returned' = <<"list", jar>>
         ELSE /\ log' = <<>>
              /\ returned' = <<"list", <<>>>>
    /\ op' = "get_cookies"
    /\ raised' = Nil
    /\ CallOver
    /\ UNCHANGED <<held, jar>>

\* is_connected (lines 467-471); alive is what the handle's own
\* is_connected() answers
is_connected ==
    /\ pc \in Idle
    /\ \E alive \in BOOLEAN :
         returned' = <<"bool", browser # None /\ alive>>
    /\ log' = <<>>
    /\ op' = "is_connected"
    /\ raised' = Nil
    /\ CallOver
    /\ UNCHANGED <<held, jar>>

\* get_browser_info (lines 473-492)
get_browser_info ==
    /\ pc \in Idle
    /\ \E fails \in BOOLEAN, alive \in BOOLEAN :
         IF browser = None
         THEN /\ returned' = <<"dict">>
              /\ log' = <<>>
         ELSE IF fails
         THEN /\ returned' = <<"dict">>
              /\ log' = <<"WARNING: reading the browser info failed">>
         ELSE /\ returned' = <<"dict", "version", Len(contexts), debug_port,
                               alive>>
              /\ log' = <<>>
    /\ op' = "get_browser_info"
    /\ raised' = Nil
    /\ CallOver
    /\ UNCHANGED <<held, jar>>

Next ==
    \/ launch_and_connect
    \/ Probing
    \/ Attaching
    \/ Launching
    \/ Connecting
    \/ ResolvingContext
    \/ FedList
    \/ HarvestNext
    \/ HarvestProbe
    \/ HarvestEnd
    \/ InstallGroup
    \/ InstallEnd
    \/ Cleanup
    \/ add_stealth_script
    \/ add_cookies
    \/ get_cookies
    \/ is_connected
    \/ get_browser_info

Spec == Init /\ [][Next]_vars

\* -------------------------------------------------------------- properties
InSeq(s, e) == \E i \in 1..Len(s) : s[i] = e

\* positions of the entries of s that are in set E
Pos(s, E) == { i \in 1..Len(s) : s[i] \in E }

\* every entry of E in s comes before every entry of F
Before(s, E, F) == \A i \in Pos(s, E), j \in Pos(s, F) : i < j

ContextCloseCalls == {"context.close", "context.close!"}
BrowserCloseCalls == {"browser.close", "browser.close!"}
TerminateCalls == {"launcher.cleanup", "launcher.cleanup!"}
LaunchCalls ==
    {"launcher.detect_browser_paths", "launcher.get_browser_info",
     "launcher.launch_browser", "launcher.launch_browser!",
     "launcher.wait_for_browser_ready: True",
     "launcher.wait_for_browser_ready: False"}

\* the step is one in which cleanup ran: the public operation, or the
\* except block of launch_and_connect
CleanupRan == op' = "cleanup" \/ (pc # "FAILED" /\ pc' = "FAILED")

\* C1: when a step of launch_and_connect raises, cleanup has run when the
\* call ends, the error that leaves the call is the one that was caught,
\* and the manager holds neither a controller handle nor a context.
C1_FailedAcquireCleansUp ==
    pc = "FAILED" =>
        /\ InSeq(log, "cleanup")
        /\ caught # Nil
        /\ raised = caught
        /\ returned = None
        /\ browser = None
        /\ browser_context = None

\* C1 witness: context creation failed and, in the cleanup that followed,
\* closing the handle failed as well.
C1_Witness ==
    /\ pc = "FAILED"
    /\ raised = "ContextCreationError"
    /\ InSeq(log, "browser.close!")

\* C2 as stated: after a probe that answered true no launcher operation at
\* all is invoked during the call, terminate included.
C2_Original ==
    (op = "launch_and_connect" /\ initial_probe = "True") =>
        \A i \in 1..Len(log) : log[i] \notin LaunchCalls \cup TerminateCalls

\* C2 amended: after a probe that answered true no path detection, launch
\* or wait-until-ready is invoked during the call and no path is resolved;
\* the launcher's terminate is invoked exactly when the call failed and
\* AUTO_CLOSE_BROWSER is set.
C2_AttachSkipsLaunch ==
    (op = "launch_and_connect" /\ initial_probe = "True") =>
        /\ \A i \in 1..Len(log) : log[i] \notin LaunchCalls
        /\ browser_path = Nil
        /\ Pos(log, TerminateCalls) # {}
               <=> (pc = "FAILED" /\ AUTO_CLOSE_BROWSER)

\* C2 witness: attached to a listening browser, then the handshake failed
\* and cleanup terminated.
C2_Witness ==
    /\ op = "launch_and_connect"
    /\ initial_probe = "True"
    /\ raised = "HandshakeError"
    /\ InSeq(log, "launcher.cleanup")

\* C3 as stated: when the launched browser does not become ready the call
\* fails with the timeout error and terminate is not invoked, whatever the
\* flag.
C3_Original ==
    InSeq(log, "launcher.wait_for_browser_ready: False") =>
        /\ pc = "FAILED"
        /\ raised = "RuntimeError: browser not ready in time"
        /\ Pos(log, TerminateCalls) = {}

\* C3 amended: when the initial probe answered false and the launched
\* browser does not become ready, the call fails with the timeout error,
\* and the cleanup of the failing call invokes terminate exactly when
\* AUTO_CLOSE_BROWSER is set.
C3_LaunchTimeout ==
    InSeq(log, "launcher.wait_for_browser_ready: False") =>
        /\ pc = "FAILED"
        /\ initial_probe = "False"
        /\ caught = "RuntimeError: browser not ready in time"
        /\ raised = caught
        /\ browser_process # Nil
        /\ Pos(log, TerminateCalls) # {} <=> AUTO_CLOSE_BROWSER

\* C3 witness: the launch timed out with the flag unset, nothing terminated
C3_Witness ==
    /\ InSeq(log, "launcher.wait_for_browser_ready: False")
    /\ ~AUTO_CLOSE_BROWSER
    /\ pc = "FAILED"
    /\ Pos(log, TerminateCalls) = {}

\* C4: cleanup lets no exception escape in whatever state it is called,
\* also when each of its three steps fails; after it the fields are None,
\* they stay None until the next launch_and_connect, and a cleanup called
\* while they are None closes no context and no controller handle.
C4_CleanupNeverRaises ==
    [][ /\ op' = "cleanup" =>
              /\ raised' = Nil
              /\ browser' = None
              /\ browser_context' = None
        /\ (browser = None /\ browser_context = None
            /\ op' # "launch_and_connect") =>
              /\ browser' = None
              /\ browser_context' = None
        /\ (browser = None /\ browser_context = None /\ op' = "cleanup") =>
              /\ Pos(log', ContextCloseCalls \cup BrowserCloseCalls) = {}
              /\ openBrowsers' = openBrowsers
              /\ openContexts' = openContexts
      ]_vars

\* C4 witness: a cleanup in which both closes and the termination failed
C4_Witness ==
    /\ op = "cleanup"
    /\ raised = Nil
    /\ InSeq(log, "context.close!")
    /\ InSeq(log, "browser.close!")
    /\ InSeq(log, "launcher.cleanup!")

\* C5: in a step in which cleanup runs, the context close comes before the
\* handle close and both before the termination; a held context and a held
\* handle are each closed (attempted) once whether or not the other close
\* failed; the termination is attempted exactly when AUTO_CLOSE_BROWSER is
\* set.  With the flag unset nothing is ever terminated.
C5_CleanupOrdered ==
    [][ /\ CleanupRan =>
              /\ Before(log', ContextCloseCalls, BrowserCloseCalls)
              /\ Before(log', BrowserCloseCalls, TerminateCalls)
              /\ Before(log', ContextCloseCalls, TerminateCalls)
              /\ Cardinality(Pos(log', ContextCloseCalls)) =
                     (IF browser_context # None THEN 1 ELSE 0)
              /\ browser # None =>
                     Cardinality(Pos(log', BrowserCloseCalls)) = 1
              /\ Cardinality(Pos(log', BrowserCloseCalls)) <= 1
              /\ Cardinality(Pos(log', TerminateCalls)) =
                     (IF AUTO_CLOSE_BROWSER THEN 1 ELSE 0)
        /\ ~AUTO_CLOSE_BROWSER' => Pos(log', TerminateCalls) = {}
      ]_vars

\* C5 witness: both closes failed and the termination still ran, in order
C5_Witness ==
    /\ op = "cleanup"
    /\ log = <<"cleanup", "context.close!", "browser.close!",
               "launcher.cleanup", "WARNING: context close failed",
               "WARNING: browser close failed">>

\* the handshake is attempted in this step
HandshakeAttempted ==
    /\ Pos(log', {"connect_over_cdp", "connect_over_cdp!"}) # {}
    /\ Pos(log, {"connect_over_cdp", "connect_over_cdp!"}) = {}

\* C6: launch_and_connect moves INIT -> PROBING -> (ATTACHING | LAUNCHING)
\* -> CONNECTING -> RESOLVING_CONTEXT -> [FEDERATING] -> READY.  The
\* handshake is attempted only after the probe and, on the launch branch,
\* after the launcher reported ready; the context is resolved only with a
\* handle that answered connected; FEDERATING is entered only from
\* RESOLVING_CONTEXT; once FAILED, no further step of the call runs.
C6_Lifecycle ==
    [][ /\ (pc' = "PROBING") => (pc \in Idle /\ nAcquire' = nAcquire + 1)
        /\ (pc' = "ATTACHING" /\ pc # "ATTACHING") =>
              (pc = "PROBING" /\ initial_probe' = "True")
        /\ (pc' = "LAUNCHING" /\ pc # "LAUNCHING") =>
              (pc = "PROBING" /\ initial_probe' = "False")
        /\ (pc' = "CONNECTING" /\ pc # "CONNECTING") =>
              \/ pc = "ATTACHING"
              \/ /\ pc = "LAUNCHING"
                 /\ InSeq(log', "launcher.wait_for_browser_ready: True")
        /\ HandshakeAttempted =>
              /\ pc = "CONNECTING"
              /\ initial_probe \in {"True", "False"}
              /\ initial_probe = "False" =>
                     InSeq(log, "launcher.wait_for_browser_ready: True")
        /\ (pc' = "RESOLVING_CONTEXT" /\ pc # "RESOLVING_CONTEXT") =>
              /\ pc = "CONNECTING"
              /\ log'[Len(log')] = "is_connected: True"
              /\ browser' # None
        /\ (pc' = "FEDERATING" /\ pc # "FEDERATING") =>
              pc = "RESOLVING_CONTEXT"
        /\ (pc' = "READY" /\ pc # "READY") =>
              pc \in {"RESOLVING_CONTEXT", "FEDERATING"}
        /\ pc = "FAILED" =>
              (nAcquire' = nAcquire + 1 \/ op' # "launch_and_connect")
        /\ pc = "READY" =>
              (nAcquire' = nAcquire + 1 \/ op' # "launch_and_connect")
      ]_vars

\* C6 witness: a call that went through the launch branch and federation
C6_Witness ==
    /\ pc = "READY"
    /\ initial_probe = "False"
    /\ fed.fpc = "done"
    /\ obs.reported > 0

\* C7: when the handle exposes contexts, the first is returned and becomes
\* the active one, no context is created, nothing of the federation runs
\* and the cookie jar of that context is as it was.
C7_ReuseFirstContext ==
    (op = "launch_and_connect" /\ obs.exposed > 0) =>
        /\ pc \in {"RESOLVING_CONTEXT", "READY"}
        /\ fed = FedInit
        /\ obs.calls = {}
        /\ Pos(log, {"browser.new_context", "browser.new_context!"}) = {}
        /\ Len(contexts) = obs.exposed
        /\ jar = obs.jar0
        /\ pc = "READY" =>
              /\ returned = <<"context", nAcquire, 1>>
              /\ returned = contexts[1]
              /\ browser_context = returned

\* C7 witness: two contexts exposed, reading the cookies of the first failed
C7_Witness ==
    /\ pc = "READY"
    /\ obs.exposed = 2
    /\ jar # <<>>
    /\ InSeq(log, "context.cookies!")

Keys(cookies) == { <<cookies[i].name, cookies[i].domain>> :
                       i \in 1..Len(cookies) }

Elems(s) == { s[i] : i \in 1..Len(s) }

\* C8: a failure at one domain leaves the loops running: after a target
\* whose page did not open and after a probe in which navigating, reading
\* or closing failed, the harvest goes on; after a domain whose
\* installation failed the installation goes on.  So every domain whose
\* probe read the jar has the cookies its site set for it in the harvested
\* list, their keys are in the merged list, every domain of the merged list
\* is tried, and the cookies of every domain that was installed are in the
\* jar of the context.
C8_FaultIsolation ==
    [][ /\ (pc = "FEDERATING" /\ fed.fpc \in {"harvest", "probe"}) =>
              (pc' = "FEDERATING" \/ fed'.fpc = "done" \/ obs'.deduped)
        /\ (pc = "FEDERATING" /\ fed.fpc = "probe") =>
              (fed'.fpc = "harvest" /\ fed'.tempOpen = 0)
        /\ (pc = "FEDERATING" /\ fed.fpc = "harvest"
            /\ obs'.openFailed # obs.openFailed) =>
              (fed'.fpc = "harvest" /\ fed'.all_cookies = fed.all_cookies)
        /\ (pc = "FEDERATING" /\ fed.fpc = "install"
            /\ fed.gi <= Len(fed.cookies_by_domain)) =>
              (fed'.fpc = "install" /\ fed'.gi = fed.gi + 1)
        /\ \A h \in obs'.harvested :
              /\ Elems(FilterDomain(SiteCookies(h.domain), h.domain))
                     \subseteq Elems(h.kept)
              /\ Elems(h.kept) \subseteq Elems(fed'.all_cookies)
              /\ obs'.deduped =>
                     Keys(h.kept) \subseteq Keys(fed'.unique_cookies)
        /\ obs'.reported >= 0 =>
              obs'.groupsTried =
                  { Lstrip(c.domain) : c \in Elems(fed'.unique_cookies) }
        /\ pc' \in {"FEDERATING", "READY"} =>
              \A c \in Elems(fed'.unique_cookies) :
                  Lstrip(c.domain) \in obs'.groupsInstalled =>
                      c \in Elems(jar')
      ]_vars

\* C8 witness: the navigation to a failed, b.a was harvested all the same;
\* the installation for a failed, the one for b was done all the same.
C8_Witness ==
    /\ pc = "READY"
    /\ fed.fpc = "done"
    /\ D_a \in obs.attempted
    /\ \A h \in obs.harvested : h.domain # D_a
    /\ \E h \in obs.harvested : h.domain = D_ba /\ h.kept # <<>>
    /\ D_a \in obs.groupsTried \ obs.groupsInstalled
    /\ D_b \in obs.groupsInstalled

\* index of the first cookie of the list bearing the key of c
FirstWithKey(cookies, c) ==
    CHOOSE i \in 1..Len(cookies) :
        /\ <<cookies[i].name, cookies[i].domain>> = <<c.name, c.domain>>
        /\ \A j \in 1..(i - 1) :
               <<cookies[j].name, cookies[j].domain>> # <<c.name, c.domain>>

\* C9: the merged list holds one cookie for every (name, domain) key of the
\* harvested list, the first one bearing the key, in harvest order; the
\* count federation reports is the number of distinct keys, and the groups
\* it installs hold the merged list, each cookie once.
C9_DedupFirstWins ==
    obs.deduped =>
        LET all == fed.all_cookies
            unique == fed.unique_cookies
        IN  /\ Keys(unique) = Keys(all)
            /\ Len(unique) = Cardinality(Keys(all))
            /\ \A i \in 1..Len(unique) :
                   unique[i] = all[FirstWithKey(all, unique[i])]
            /\ \A i, j \in 1..Len(unique) :
                   i < j => FirstWithKey(all, unique[i])
                                < FirstWithKey(all, unique[j])
            /\ obs.reported >= 0 => obs.reported = Cardinality(Keys(all))
            /\ fed.fpc \in {"install", "done"} /\ unique # <<>> =>
                   \A c \in Elems(unique) :
                       Cardinality(
                           { <<g, k>> \in
                                 (1..Len(fed.cookies_by_domain)) \X
                                 (1..Len(unique)) :
                               /\ k <= Len(fed.cookies_by_domain[g].cookies)
                               /\ fed.cookies_by_domain[g].cookies[k] = c })
                         = 1

\* C9 witness: cookies harvested more than once, a merged list that is
\* shorter, and the count reported
C9_Witness ==
    /\ obs.deduped
    /\ Len(fed.all_cookies) > Len(fed.unique_cookies) + 1
    /\ obs.reported = Len(fed.unique_cookies)
    /\ Cardinality(Keys(fed.unique_cookies)) > 2

\* C10 as stated: when the harvest is over, the navigations made are as
\* many as the distinct domains of the page targets with an http or https
\* URL that were listed.
C10_Original ==
    obs.deduped => obs.probes = Cardinality(obs.eligible)

\* C10 amended: a temporary page is asked for exactly once for every
\* distinct domain among the listed page targets whose URL begins with
\* "http", and the navigations are as many as the pages that opened; no
\* other target is probed.
C10_OneProbePerDomain ==
    op = "launch_and_connect" =>
        /\ obs.attempted = obs.httpDomains
        /\ obs.eligible \subseteq obs.httpDomains
        /\ obs.openFailed \subseteq obs.attempted
        /\ obs.probes + (IF fed.fpc = "probe" THEN 1 ELSE 0) =
               Cardinality(obs.attempted) - Cardinality(obs.openFailed)
        /\ fed.tempOpen = (IF fed.fpc \in {"probe", "install"} THEN 1 ELSE 0)

\* C10 witness: three targets on two domains, two navigations
C10_Witness ==
    /\ obs.deduped
    /\ fed.idx = 3
    /\ obs.attempted = {D_a, D_ba}
    /\ obs.probes = 2

FederationWarnings ==
    {"WARNING: cookie federation failed", "WARNING: no cookies found"}

\* something failed inside the federation of this call
FederationFailed ==
    \/ fed.fpc \in {"aborted", "skipped"}
    \/ obs.openFailed # {}
    \/ obs.attempted \ obs.openFailed # { h.domain : h \in obs.harvested }
    \/ obs.groupsTried # obs.groupsInstalled

C12_OneTemporaryPage ==
    [][ /\ fed'.tempOpen \in {0, 1}
        /\ fed'.tempOpen > fed.tempOpen => fed.tempOpen = 0
        /\ (pc = "FEDERATING" /\ fed.fpc = "probe") =>
              (fed'.tempOpen = 0 /\ "close" \in obs'.calls)
        /\ (fed'.fpc = "harvest") => fed'.tempOpen = 0
        /\ pc' # "FEDERATING" => fed'.tempOpen = 0
      ]_vars

\* C12 witness: two probes, the first with a failed navigation, then the
\* installation page: one page open
C12_Witness ==
    /\ pc = "FEDERATING"
    /\ fed.fpc = "install"
    /\ fed.tempOpen = 1
    /\ obs.probes = 2
    /\ Cardinality(obs.harvested) = 1

\* C13: whatever sequence of launch_and_connect and cleanup calls was made,
\* at most one controller handle the manager obtained is left without
\* close() having been called on it, between calls that handle and the
\* context in use are the ones the manager holds (those cleanup closes),
\* and after a cleanup none is left.
C13_SingleHandle ==
    /\ Cardinality(openBrowsers) <= 1
    /\ pc \in Idle =>
          /\ openBrowsers \subseteq {browser}
          /\ openContexts \subseteq {browser_context}
    /\ op = "cleanup" => (openBrowsers = {} /\ openContexts = {})

\* the log entries that are warnings
IsWarning(e) ==
    e \in {"WARNING: adding the script failed",
           "WARNING: adding cookies failed",
           "WARNING: reading cookies failed",
           "WARNING: reading the browser info failed",
           "WARNING: context close failed", "WARNING: browser close failed",
           "WARNING: new context, no login state",
           "WARNING: cookie federation failed", "WARNING: no cookies found"}

\* C14: called on a manager without an active context, add_cookies,
\* get_cookies and add_stealth_script log a warning, call nothing, raise
\* nothing, and get_cookies returns the empty list.
C14_NoContextWarns ==
    (op \in {"add_cookies", "get_cookies", "add_stealth_script"}
     /\ browser_context = None) =>
        /\ \E i \in 1..Len(log) : IsWarning(log[i])
        /\ \A i \in 1..Len(log) : IsWarning(log[i])
        /\ raised = Nil
        /\ op = "get_cookies" => returned = <<"list", <<>>>>

\* the cookies of the merged list whose domain was installed
InstalledCookies ==
    SelectSeq(fed.unique_cookies,
              LAMBDA c : Lstrip(c.domain) \in obs.groupsInstalled)

\* C15: the count federation reports is the number of cookies installed
\* into the context, and when federation ends with nothing installed the
\* zero-cookies warning is logged.
C15_ReportedCount ==
    /\ obs.reported >= 0 => obs.reported = Len(InstalledCookies)
    /\ (pc = "READY" /\ fed.fpc = "done" /\ InstalledCookies = <<>>) =>
           InSeq(log, "WARNING: no cookies found")

HandshakeCalls == {"connect_over_cdp", "connect_over_cdp!"}

\* the errors _connect_via_cdp raises of itself
ConnectionErrors ==
    {"RuntimeError: no webSocketDebuggerUrl", "HandshakeError",
     "RuntimeError: CDP connection failed"}

\* C16: in one call the handshake is attempted at most once and only with
\* a non-empty address.  When the metadata lacks the address the call
\* fails without a handshake; when the handshake raises or the handle does
\* not answer connected the call fails after that one attempt; in each
\* case after one metadata request of _connect_via_cdp and with the error
\* reaching the caller as it was raised.
C16_SingleConnectAttempt ==
    op = "launch_and_connect" =>
        /\ Cardinality(Pos(log, HandshakeCalls)) <= 1
        /\ Pos(log, HandshakeCalls) # {} => obs.ws_url \notin {Nil, ""}
        /\ (InSeq(log, "connect_over_cdp!")
            \/ InSeq(log, "is_connected: False")) =>
               (pc = "FAILED" /\ caught \in ConnectionErrors)
        /\ (pc = "FAILED" /\ caught \in ConnectionErrors) =>
               /\ raised = caught
               /\ Cardinality(Pos(log, {"GET /json/version"})) =
                      (IF initial_probe = "True" THEN 2 ELSE 3)
               /\ caught = "RuntimeError: no webSocketDebuggerUrl" =>
                      Pos(log, HandshakeCalls) = {}
               /\ caught = "HandshakeError" =>
                      InSeq(log, "connect_over_cdp!")
               /\ caught = "RuntimeError: CDP connection failed" =>
                      /\ InSeq(log, "connect_over_cdp")
                      /\ InSeq(log, "is_connected: False")

\* C16 witness: the metadata answer carried no address, the call failed
\* without a handshake
C16_Witness ==
    /\ pc = "FAILED"
    /\ initial_probe = "True"
    /\ caught = "RuntimeError: no webSocketDebuggerUrl"
    /\ raised = caught
    /\ Pos(log, HandshakeCalls) = {}

\* C17: on the launch branch the configured path is the one used exactly
\* when it is set and names an existing file; otherwise the browsers are
\* detected and the first candidate is used, and path resolution fails
\* (the call failing, with cleanup) exactly when none was detected.
C17_PathResolution ==
    obs.config # <<>> =>
        LET c == obs.config
            usable == c.custom # "" /\ c.isfile = "True"
        IN  /\ initial_probe = "False"
            /\ usable => (browser_path = c.custom
                          /\ ~InSeq(log, "launcher.detect_browser_paths"))
            /\ ~usable => /\ InSeq(log, "launcher.detect_browser_paths")
                          /\ browser_path # "custom"
            /\ (~usable /\ c.detected # <<>>) =>
                   /\ browser_path = c.detected[1]
                   /\ caught # "RuntimeError: no browser found"
            /\ (~usable /\ c.detected = <<>>) =>
                   /\ pc = "FAILED"
                   /\ caught = "RuntimeError: no browser found"
                   /\ raised = caught
                   /\ browser_path = Nil
                   /\ InSeq(log, "cleanup")
                   /\ ~InSeq(log, "launcher.launch_browser")

\* C17 witness: the configured path names no file, two browsers were
\* detected, the first was launched
C17_Witness ==
    /\ obs.config # <<>>
    /\ obs.config.custom = "custom"
    /\ obs.config.isfile = "False"
    /\ obs.config.detected = <<"chrome", "edge">>
    /\ browser_path = "chrome"
    /\ InSeq(log, "launcher.launch_browser")

\* p is a suffix of s
IsSuffix(p, s) ==
    Len(p) <= Len(s) /\ SubSeq(s, Len(s) - Len(p) + 1, Len(s)) = p

\* C18: every cookie harvested for a probed domain has a domain that, its
\* leading dots dropped, is not empty and is the probed domain or a suffix
\* of it.
C18_SuffixFilter ==
    \A h \in obs.harvested :
        \A i \in 1..Len(h.kept) :
            /\ Lstrip(h.kept[i].domain) # <<>>
            /\ IsSuffix(Lstrip(h.kept[i].domain), h.domain)

\* the answer is a success, well-formed, and carries a non-empty address
GoodAnswer(r) ==
    /\ r.exc = Nil
    /\ r.status = 200
    /\ r.json
    /\ r.ws \notin {Nil, ""}

\* C19: the probe of line 49 makes one request, lets nothing escape, and
\* answers true exactly when the answer to the request is a success that
\* parses and carries a non-empty webSocketDebuggerUrl.
C19_ProbeExact ==
    pc \in {"ATTACHING", "LAUNCHING"} =>
        /\ initial_probe = (IF GoodAnswer(obs.response) THEN "True"
                            ELSE "False")
        /\ log = <<"GET /json/version">>
        /\ raised = Nil /\ caught = Nil
        /\ pc = (IF GoodAnswer(obs.response) THEN "ATTACHING"
                 ELSE "LAUNCHING")

\* C19 witness: a 200 answer whose address is empty: the probe said false
C19_Witness ==
    /\ pc = "LAUNCHING"
    /\ initial_probe = "False"
    /\ obs.response = Response(Nil, 200, TRUE, "")

\* C20: when launch_and_connect has returned a context, the manager holds
\* the handle of this call, which answered connected; the active context is
\* the returned one; and it is the first context the handle exposed, or,
\* when it exposed none, the one created on the handle in this call.
C20_ReadyState ==
    pc = "READY" =>
        /\ browser = <<"browser", nAcquire>>
        /\ browser \in openBrowsers
        /\ InSeq(log, "is_connected: True")
        /\ ~InSeq(log, "is_connected: False")
        /\ returned # None
        /\ browser_context = returned
        /\ returned \in openContexts
        /\ returned \in Elems(contexts)
        /\ IF obs.exposed > 0
           THEN returned = contexts[1] /\ returned[3] = 1
           ELSE /\ returned = NewContext(browser)
                /\ Cardinality(Pos(log, {"browser.new_context"})) = 1

\* C20 witness: a second call on the same manager, READY with a context
\* created on the second handle
C20_Witness ==
    /\ pc = "READY"
    /\ nAcquire = 2
    /\ browser = <<"browser", 2>>
    /\ returned = <<"context", 2, 0>>
    /\ browser_context = returned

\* C21: cleanup leaves the manager without a handle whether or not its
\* closes succeeded; the manager stays so until the next
\* launch_and_connect; and on a manager without a handle is_connected
\* returns False and get_browser_info returns the empty dict, raising
\* nothing.
C21_DisconnectedAfterCleanup ==
    [][ /\ op' = "cleanup" => browser' = None
        /\ (browser = None /\ op' # "launch_and_connect") => browser' = None
        /\ (browser = None /\ op' = "is_connected") =>
              (returned' = <<"bool", FALSE>> /\ raised' = Nil)
        /\ (browser = None /\ op' = "get_browser_info") =>
              (returned' = <<"dict">> /\ raised' = Nil /\ log' = <<>>)
      ]_vars

\* C21 witness: a call launched a browser, cleanup has run since (of
\* itself or in the except block of the call), the manager holds no handle
\* and get_browser_info has answered with the empty dict
C21_Witness ==
    /\ op = "get_browser_info"
    /\ nAcquire = 1
    /\ browser_process = "process"
    /\ browser = None
    /\ returned = <<"dict">>
    /\ log = <<>>

====
